---- MODULE Spec2Model ----
(***************************************************************************)
(* The map-template workflow of MapStore2: mergeTemplateEpic and           *)
(* replaceTemplateEpic with the template cache they read, the actions      *)
(* they emit and the error translation errorToMessageId.                   *)
(*                                                                         *)
(* Each epic is action$.ofType(T).switchMap(request => inner): the inner   *)
(* observable of a request is unsubscribed when the next request of the    *)
(* same type arrives.  An invocation is one inner observable.  Everything  *)
(* an inner observable emits synchronously is dispatched to the store in   *)
(* the same step; a step ends where the code waits for a promise           *)
(* (Api.getData, toMapConfig).                                             *)
(***************************************************************************)
EXTENDS Integers, Sequences, FiniteSets, TLC

VARIABLES
    templates,   \* state.maptemplates.templates: id -> [dataLoaded, loading, data]
    mapState,    \* what mapSelector / mapOptionsToSaveSelector read
    loggedIn,    \* isLoggedIn(state)
    invs,        \* the invocations so far, in the order of their requests
    mapTemplatesLoaded,  \* state.maptemplates.mapTemplatesLoaded
    contextTemplates,    \* state.context.currentContext.templates
    enabled,     \* state.controls.mapTemplates.enabled
    opens,       \* the invocations of openMapTemplatesPanelEpic so far
    panelState,  \* SharePanel: this.state, and whether it is mounted
    props,       \* SharePanel: this.props
    updatedSettings,  \* SharePanel: what onUpdateSettings was last called with
    calls        \* geostory: the calls of add so far, with what they returned

templateVars == <<templates, mapState, loggedIn, invs>>
openVars == <<mapTemplatesLoaded, contextTemplates, enabled, opens>>
shareVars == <<panelState, props, updatedSettings>>
storyVars == <<calls>>
vars == <<templateVars, openVars, shareVars, storyVars>>

----------------------------------------------------------------------------
(* Bounds *)

\* requests dispatched in one behaviour
MaxRequests == 2
\* template zoom levels are 0..MaxZoom
MaxZoom == 1
\* calls of the geostory action creator add in one behaviour
MaxAdds == 2
\* OPEN_MAP_TEMPLATES_PANEL actions dispatched in one behaviour
MaxOpens == 2

----------------------------------------------------------------------------
(* Values *)

Epics == {"merge", "replace"}
\* the ids of the templates of the cache
Ids == {"t1", "t2"}
\* an id no template of the cache has
MissingId == "t0"

\* a field that is not there; optional numbers are <<>> or <<n>>
Undefined == "undefined"

NoMap ==
    [defined |-> FALSE, zoom |-> <<>>, center |-> Undefined,
     bbox |-> Undefined, maxExtent |-> Undefined]

NoConfig ==
    [map |-> NoMap, widgetsConfig |-> Undefined, layers |-> <<>>, groups |-> <<>>]

ZoomValues == {<<>>} \cup {<<z>> : z \in 0..MaxZoom}

\* the `map` objects a template can carry
TemplateMaps ==
    [defined : {TRUE}, zoom : ZoomValues, center : {Undefined, "ct"},
     bbox : {Undefined, "bb"}, maxExtent : {Undefined, "me"}]

\* structured template data: a configuration, with or without a map
TemplateConfigs ==
    [map : TemplateMaps \cup {NoMap}, widgetsConfig : {Undefined, "wt"},
     layers : {<<"lt">>}, groups : {<<"gt">>}]

\* a WMC text encodes zoom, center, bbox and maxExtent; <<>> is malformed
Serialize(m) == <<m.zoom, m.center, m.bbox, m.maxExtent>>
Malformed == <<>>
Texts ==
    {Malformed} \cup {Serialize(m) : m \in {x \in TemplateMaps : x.center = Undefined}}

ObjectData(c) == [type |-> "object", text |-> <<>>, config |-> c]
StringData(t) == [type |-> "string", text |-> t, config |-> NoConfig]
NullData == [type |-> "null", text |-> <<>>, config |-> NoConfig]
NoData == [type |-> "undefined", text |-> <<>>, config |-> NoConfig]

\* everything Api.getData can resolve to
AllData ==
    {ObjectData(c) : c \in TemplateConfigs} \cup {StringData(t) : t \in Texts}
        \cup {NullData}

\* the data served when requests interleave: one value of each shape
SampleData ==
    {ObjectData([map |-> [defined |-> TRUE, zoom |-> <<>>, center |-> Undefined,
                          bbox |-> "bb", maxExtent |-> Undefined],
                 widgetsConfig |-> "wt", layers |-> <<"lt">>, groups |-> <<"gt">>]),
     ObjectData([map |-> [defined |-> TRUE, zoom |-> <<MaxZoom>>, center |-> "ct",
                          bbox |-> Undefined, maxExtent |-> Undefined],
                 widgetsConfig |-> Undefined, layers |-> <<"lt">>,
                 groups |-> <<"gt">>]),
     ObjectData([map |-> NoMap, widgetsConfig |-> Undefined, layers |-> <<"lt">>,
                 groups |-> <<"gt">>]),
     NullData,
     StringData(Malformed),
     StringData(<<<<>>, Undefined, "bb", Undefined>>)}

\* the errors of Api.getData: HTTP statuses, an error without one, and the
\* same wrapped in originalError
HttpError(s) == [status |-> s, originalError |-> <<>>]
Wrapped(e) == [status |-> <<>>, originalError |-> <<e>>]
FetchErrors ==
    {HttpError(s) : s \in {<<403>>, <<404>>, <<500>>, <<>>}}
        \cup {Wrapped(HttpError(s)) : s \in {<<403>>, <<404>>}}
\* what a failed toMapConfig rejects with
ParseError == HttpError(<<>>)

\* the current map: zoom and center outside the templates' values
MapStates ==
    {[zoom |-> <<MaxZoom + 1>>, center |-> "c1", widgetsConfig |-> Undefined,
      layers |-> <<"l1">>, groups |-> <<"g1">>],
     [zoom |-> <<MaxZoom + 2>>, center |-> "c2", widgetsConfig |-> "w2",
      layers |-> <<"l2">>, groups |-> <<"g2">>]}

----------------------------------------------------------------------------
(* lodash and JavaScript *)

isString(d) == d.type = "string"
isObject(d) == d.type = "object"

\* truthiness of an optional number: undefined and 0 are falsy
TruthyNum(z) == z # <<>> /\ z[1] # 0
\* truthiness of an optional object
TruthyObj(s) == s # Undefined /\ s # "false"

----------------------------------------------------------------------------
(* Action creators *)

setTemplateLoading(id, value) ==
    [type |-> "SET_TEMPLATE_LOADING", id |-> id, loadingValue |-> value]
setTemplateData(id, data) ==
    [type |-> "SET_TEMPLATE_DATA", id |-> id, data |-> data]
configureMap(config, zoomToExtent) ==
    [type |-> "MAP_CONFIG_LOADED", config |-> config, zoomToExtent |-> zoomToExtent]
showError(message) ==
    [type |-> "SHOW_NOTIFICATION", level |-> "error", message |-> message]

----------------------------------------------------------------------------
(* errorToMessageId *)

\* mutant of errorToMessageId: the login state is not looked at
errorToMessageIdNoLogin(e, logged) ==
    IF e.status = <<403>> THEN "context.errors.template.pleaseLogin"
    ELSE IF e.status = <<404>> THEN "context.errors.template.notFound"
    ELSE "context.errors.template.unknownError"

errorToMessageId(e, logged) ==
    LET m0 == "context.errors.template.unknownError"
        m1 == IF e.status = <<403>>
              THEN (IF logged THEN "context.errors.template.notAccessible"
                    ELSE "context.errors.template.pleaseLogin")
              ELSE m0
        m2 == IF e.status = <<404>> THEN "context.errors.template.notFound" ELSE m1
    IN m2

\* e.originalError || e
OriginalError(e) == IF e.originalError # <<>> THEN e.originalError[1] ELSE e

\* mutant of ExceptionActions: the error is swallowed
ExceptionActionsNone(e, logged) == <<>>

\* mutant of ExceptionActions: the error is notified twice
ExceptionActionsTwice(e, logged) ==
    <<showError(errorToMessageId(OriginalError(e), logged)),
      showError(errorToMessageId(OriginalError(e), logged))>>

\* the exception handler given to wrapStartStop
ExceptionActions(e, logged) ==
    <<showError(errorToMessageId(OriginalError(e), logged))>>

----------------------------------------------------------------------------
(* Collaborators *)

\* toMapConfig(text, generateLayersGroup) resolves with a configuration or
\* rejects; a WMC document carries no widgets
Parsable(text) == Len(text) = 4
toMapConfig(text, generateLayersGroup) ==
    [map |-> [defined |-> TRUE, zoom |-> text[1], center |-> text[2],
              bbox |-> text[3], maxExtent |-> text[4]],
     widgetsConfig |-> Undefined, layers |-> <<"wmc">>,
     groups |-> IF generateLayersGroup THEN <<"wmcGroup">> ELSE <<>>]

\* MapUtils.saveMapConfiguration: the current configuration
saveMapConfiguration(s) ==
    [map |-> [defined |-> TRUE, zoom |-> s.zoom, center |-> s.center,
              bbox |-> Undefined, maxExtent |-> Undefined],
     widgetsConfig |-> s.widgetsConfig, layers |-> s.layers, groups |-> s.groups]

\* MapUtils.mergeMapConfigs: the new layers over the current ones
mergeMapConfigs(cfg1, cfg2) ==
    [map |-> cfg1.map,
     widgetsConfig |-> IF cfg2.widgetsConfig # Undefined
                       THEN cfg2.widgetsConfig ELSE cfg1.widgetsConfig,
     layers |-> cfg1.layers \o cfg2.layers,
     groups |-> cfg1.groups \o cfg2.groups]

\* mutant of omit: nothing is omitted
omitNothing(config) == config

\* omit(config, 'widgetsConfig')
omit(config) == [config EXCEPT !.widgetsConfig = Undefined]

\* the maptemplates reducer
Reduce(tpls, a) ==
    IF a.type = "SET_TEMPLATE_LOADING"
    THEN [tpls EXCEPT ![a.id].loading = a.loadingValue]
    ELSE IF a.type = "SET_TEMPLATE_DATA"
    THEN [tpls EXCEPT ![a.id].data = a.data, ![a.id].dataLoaded = TRUE]
    ELSE tpls

RECURSIVE Dispatch(_, _)
Dispatch(tpls, actions) ==
    IF actions = <<>> THEN tpls
    ELSE Dispatch(Reduce(tpls, Head(actions)), Tail(actions))

----------------------------------------------------------------------------
(* The inner observables *)

\* mutants of StoreData: the data is always stored; it is never stored
StoreDataAlways(inv, data) == <<setTemplateData(inv.id, data)>>
StoreDataNever(inv, data) == <<>>

\* ...(!template.dataLoaded ? [setTemplateData(id, data)] : [])
StoreData(inv, data) ==
    IF ~inv.dataLoaded THEN <<setTemplateData(inv.id, data)>> ELSE <<>>

\* mutant of MergeActions: the map is configured before the data is stored
MergeActionsSwapped(inv, data, config) ==
    <<configureMap(
        omit(mergeMapConfigs(saveMapConfiguration(inv.state), config)),
        Undefined)>>
        \o StoreData(inv, data)

\* mutant of MergeActions: the map is read when the data is there
MergeActionsCurrent(inv, data, config) ==
    StoreData(inv, data)
        \o <<configureMap(
                omit(mergeMapConfigs(saveMapConfiguration(mapState), config)),
                Undefined)>>

\* merge: what the inner switchMap emits for a configuration
MergeActions(inv, data, config) ==
    StoreData(inv, data)
        \o <<configureMap(
                omit(mergeMapConfigs(saveMapConfiguration(inv.state), config)),
                Undefined)>>

\* mutant of MergeEmptyActions: the data is stored again when already loaded
MergeEmptyActionsAlways(inv, data) == <<setTemplateData(inv.id, data)>>

\* merge: data that is neither text nor an object with a map
MergeEmptyActions(inv, data) == StoreData(inv, data)

\* replace: zoom: config.map.zoom || zoom
ReplaceZoom(config, zoom) ==
    IF TruthyNum(config.map.zoom) THEN config.map.zoom ELSE zoom

\* replace: center: config.map.center || center
ReplaceCenter(config, center) ==
    IF TruthyObj(config.map.center) THEN config.map.center ELSE center

\* replace: !config.map.zoom && (config.map.bbox || config.map.maxExtent)
ZoomToExtent(config) ==
    IF TruthyNum(config.map.zoom) THEN "false"
    ELSE IF TruthyObj(config.map.bbox) THEN config.map.bbox
    ELSE config.map.maxExtent

\* replace: what the inner switchMap emits; config is <<>> for null
ReplaceActions(inv, data, config) ==
    StoreData(inv, data)
        \o (IF config # <<>>
            THEN <<configureMap(
                     [config[1] EXCEPT
                        !.map.zoom = ReplaceZoom(config[1], inv.state.zoom),
                        !.map.center = ReplaceCenter(config[1], inv.state.center)],
                     ZoomToExtent(config[1]))>>
            ELSE <<>>)

\* wrapStartStop: the start action, the stream, then the stop action; an
\* error of the stream is replaced by the exception handler's actions
StartActions(id) == <<setTemplateLoading(id, TRUE)>>
StopActions(id) == <<setTemplateLoading(id, FALSE)>>

Complete(inv, actions) ==
    [inv EXCEPT !.out = @ \o actions \o StopActions(inv.id), !.phase = "done"]

Fail(inv, e, logged) ==
    [inv EXCEPT
        !.out = @ \o ExceptionActions(e, logged) \o StopActions(inv.id),
        !.phase = "done",
        !.failure = <<[status |-> OriginalError(e).status, loggedIn |-> logged]>>]

\* mutant of ReplaceConfig: any object is taken for a configuration
ReplaceConfigAnyObject(data) == IF isObject(data) THEN <<data.config>> ELSE <<>>

\* replace: isObject(data) && data.map !== undefined ? data : null
ReplaceConfig(data) ==
    IF isObject(data) /\ data.config.map.defined THEN <<data.config>> ELSE <<>>

\* the data is there (cached or fetched): the outer switchMap
Resolve(inv, data) ==
    LET got == [inv EXCEPT !.data = data]
    IN IF isString(data)
       THEN [got EXCEPT !.phase = "parsing"]
       ELSE IF inv.epic = "merge"
       THEN IF isObject(data) /\ data.config.map.defined
            THEN Complete(got, MergeActions(got, data, data.config))
            ELSE Complete(got, MergeEmptyActions(got, data))
       ELSE Complete(got, ReplaceActions(got, data, ReplaceConfig(data)))

\* toMapConfig resolved: merge asks for the layers' group, replace does not
Parsed(inv) ==
    IF inv.epic = "merge"
    THEN Complete(inv, MergeActions(inv, inv.data, toMapConfig(inv.data.text, TRUE)))
    ELSE Complete(inv,
            ReplaceActions(inv, inv.data, <<toMapConfig(inv.data.text, FALSE)>>))

----------------------------------------------------------------------------
(* State *)

InFlight(n) == invs[n].phase \in {"fetching", "parsing"}

\* the subscribed inner observable of an epic, if any
Live(e) == {n \in DOMAIN invs : invs[n].epic = e /\ InFlight(n)}

\* the epic's stream has ended with an error
Stopped(e) == \E n \in DOMAIN invs : invs[n].epic = e /\ invs[n].phase = "thrown"

\* what the invocation of invs[n] emitted in this step
Emitted(n) == SubSeq(invs'[n].out, Len(invs[n].out) + 1, Len(invs'[n].out))

\* the initial state.controls; the panel is closed, nothing is searched
IdleOpen ==
    /\ mapTemplatesLoaded = FALSE
    /\ contextTemplates = <<>>
    /\ enabled = FALSE
    /\ opens = <<>>

\* SharePanel: state = {eventKey: 1, showAdvanced: true}, not mounted yet
InitialState ==
    [mounted |-> FALSE, eventKey |-> 1, showAdvanced |-> TRUE, bbox |-> Undefined]

\* SharePanel.defaultProps: embedPanel: true, settings: {}; no bbox and no
\* identifyDisable function unless the parent gives them
defaultProps ==
    [embedPanel |-> TRUE, selectedTab |-> Undefined,
     bbox |-> <<>>, identifyDisable |-> FALSE,
     settings |-> [bboxEnabled |-> FALSE, centerAndZoomEnabled |-> FALSE,
                   showHome |-> FALSE, markerEnabled |-> FALSE],
     advancedSettings |-> [bbox |-> FALSE, centerAndZoom |-> FALSE,
                           homeButton |-> FALSE]]

IdleShare ==
    panelState = InitialState /\ props = defaultProps /\ updatedSettings = <<>>

IdleStory == calls = <<>>

\* no template is listed and nothing is requested
IdleTemplates ==
    /\ templates = <<>>
    /\ mapState = CHOOSE s \in MapStates : s.widgetsConfig = Undefined
    /\ loggedIn = FALSE
    /\ invs = <<>>

Init ==
    /\ templates = [i \in Ids |->
            [dataLoaded |-> FALSE, loading |-> FALSE, data |-> NoData]]
    /\ mapState \in MapStates
    /\ loggedIn = FALSE
    /\ invs = <<>>
    /\ IdleOpen /\ IdleShare /\ IdleStory

\* switchMap unsubscribes the previous inner observable
Unsubscribe(e, by) ==
    [n \in DOMAIN invs |->
        IF n \in Live(e)
        THEN [invs[n] EXCEPT !.phase = "unsubscribed", !.by = by]
        ELSE invs[n]]

NewInvocation(e, id) ==
    [epic |-> e, id |-> id,
     dataLoaded |-> IF id \in Ids THEN templates[id].dataLoaded ELSE FALSE,
     state |-> mapState, data |-> NoData, phase |-> "fetching",
     fetched |-> FALSE, out |-> <<>>, failure |-> <<>>, by |-> Undefined]

\* mutants of UsesCache: the cache is never used; only cached text is used
UsesCacheNever(template) == FALSE
UsesCacheForText(template) == template.dataLoaded /\ isString(template.data)

\* template.dataLoaded ? Observable.of(template.data) : Observable.defer(...)
UsesCache(template) == template.dataLoaded

\* a MERGE_TEMPLATE or REPLACE_TEMPLATE action reaches its epic
Request(e, id) ==
    /\ Len(invs) < MaxRequests
    /\ ~Stopped(e)
    /\ id \in Ids
    /\ LET template == templates[id]
           started == [NewInvocation(e, id) EXCEPT !.out = StartActions(id)]
           inv == IF UsesCache(template)
                  THEN Resolve(started, template.data)
                  ELSE [started EXCEPT !.fetched = TRUE]
       IN /\ invs' = Append(Unsubscribe(e, id), inv)
          /\ templates' = Dispatch(templates, inv.out)
    /\ UNCHANGED <<mapState, loggedIn, openVars, shareVars, storyVars>>

\* find() returns undefined and template.dataLoaded throws in the project
\* function: the epic's stream ends with the error
RequestMissing(e) ==
    /\ Len(invs) < MaxRequests
    /\ ~Stopped(e)
    /\ invs' = Append(Unsubscribe(e, MissingId),
                      [NewInvocation(e, MissingId) EXCEPT !.phase = "thrown"])
    /\ UNCHANGED <<templates, mapState, loggedIn, openVars, shareVars, storyVars>>

\* Api.getData(id) resolves with data
FetchOk(e, data) ==
    \E n \in Live(e) :
        /\ invs[n].phase = "fetching"
        /\ invs' = [invs EXCEPT ![n] = Resolve(invs[n], data)]
        /\ templates' = Dispatch(templates, Emitted(n))
        /\ UNCHANGED <<mapState, loggedIn, openVars, shareVars, storyVars>>

\* Api.getData(id) rejects
FetchFail(e, err) ==
    \E n \in Live(e) :
        /\ invs[n].phase = "fetching"
        /\ invs' = [invs EXCEPT ![n] = Fail(invs[n], err, loggedIn)]
        /\ templates' = Dispatch(templates, Emitted(n))
        /\ UNCHANGED <<mapState, loggedIn, openVars, shareVars, storyVars>>

\* toMapConfig(data) resolves
ParseOk(e) ==
    \E n \in Live(e) :
        /\ invs[n].phase = "parsing"
        /\ Parsable(invs[n].data.text)
        /\ invs' = [invs EXCEPT ![n] = Parsed(invs[n])]
        /\ templates' = Dispatch(templates, Emitted(n))
        /\ UNCHANGED <<mapState, loggedIn, openVars, shareVars, storyVars>>

\* toMapConfig(data) rejects
ParseFail(e) ==
    \E n \in Live(e) :
        /\ invs[n].phase = "parsing"
        /\ ~Parsable(invs[n].data.text)
        /\ invs' = [invs EXCEPT ![n] = Fail(invs[n], ParseError, loggedIn)]
        /\ templates' = Dispatch(templates, Emitted(n))
        /\ UNCHANGED <<mapState, loggedIn, openVars, shareVars, storyVars>>

\* the user logs in or out
Login ==
    /\ loggedIn' = ~loggedIn
    /\ UNCHANGED <<templates, mapState, invs, openVars, shareVars, storyVars>>

\* the map moves
MoveMap ==
    /\ mapState' \in MapStates \ {mapState}
    /\ UNCHANGED <<templates, loggedIn, invs, openVars, shareVars, storyVars>>

\* requests of both epics interleave; the user and the map stay as they are
Next ==
    \/ \E e \in Epics, id \in Ids : Request(e, id)
    \/ \E e \in Epics : RequestMissing(e)
    \/ \E e \in Epics, data \in SampleData : FetchOk(e, data)
    \/ \E e \in Epics, err \in FetchErrors : FetchFail(e, err)
    \/ \E e \in Epics : ParseOk(e)
    \/ \E e \in Epics : ParseFail(e)

Spec == Init /\ [][Next]_vars

\* One request, of any data, while the user logs in and out and the map moves.
\* The cache is as an earlier invocation can have left it: t1 loaded with any
\* data an invocation stores (a text that does not parse is never stored),
\* t2 not loaded.
InitOne ==
    /\ templates \in
          {[i \in Ids |->
              IF i = "t1"
              THEN [dataLoaded |-> TRUE, loading |-> FALSE, data |-> d]
              ELSE [dataLoaded |-> FALSE, loading |-> FALSE, data |-> NoData]] :
           d \in AllData \ {StringData(Malformed)}}
    /\ mapState \in MapStates
    /\ loggedIn = FALSE
    /\ invs = <<>>
    /\ IdleOpen /\ IdleShare /\ IdleStory

NextOne ==
    \/ \E e \in Epics, id \in Ids : invs = <<>> /\ Request(e, id)
    \/ \E e \in Epics : invs = <<>> /\ RequestMissing(e)
    \/ \E e \in Epics, data \in AllData : FetchOk(e, data)
    \/ \E e \in Epics, err \in FetchErrors : FetchFail(e, err)
    \/ \E e \in Epics : ParseOk(e)
    \/ \E e \in Epics : ParseFail(e)
    \/ Login
    \/ MoveMap

SpecOne == InitOne /\ [][NextOne]_vars

----------------------------------------------------------------------------
(* SharePanel *)

\* UNSAFE_componentWillMount: const tabs = {link: 1, social: 2, embed: 3}
tabs == [link |-> 1, social |-> 2, embed |-> 3]
SelectedTabs == {Undefined} \cup DOMAIN tabs

Settings ==
    [bboxEnabled : BOOLEAN, centerAndZoomEnabled : BOOLEAN,
     showHome : BOOLEAN, markerEnabled : BOOLEAN]
AdvancedSettings == [bbox : BOOLEAN, centerAndZoom : BOOLEAN, homeButton : BOOLEAN]

\* props.bbox: undefined (<<>>) or the extent of the map
Bboxes == {<<>>, <<"0", "0", "1", "1">>}

\* lodash join(array, ','): the empty string for undefined
join(bbox) == IF bbox = <<>> THEN "" ELSE "0,0,1,1"

\* truthiness of a string: undefined and '' are falsy
TruthyStr(s) == s \notin {Undefined, ""}

\* mutant of currentTab: the selected tab is displayed as it is
currentTabSelected(p, st) == st.eventKey

\* render: !this.props.embedPanel && this.state.eventKey === 3 ? 1 : eventKey
currentTab(p, st) ==
    IF ~p.embedPanel /\ st.eventKey = tabs.embed THEN tabs.link ELSE st.eventKey

\* render: the tabs of <Tabs>; the embed tab only with embedPanel
RenderedTabs(p) ==
    {tabs.link, tabs.social} \cup (IF p.embedPanel THEN {tabs.embed} ELSE {})

\* the panel as its parent first renders it
InitShare ==
    /\ panelState = InitialState
    /\ props \in
          {p \in [embedPanel : BOOLEAN, selectedTab : SelectedTabs,
                  bbox : Bboxes, identifyDisable : BOOLEAN,
                  settings : Settings, advancedSettings : AdvancedSettings] :
              ~(p.settings.bboxEnabled /\ p.settings.centerAndZoomEnabled)}
    /\ updatedSettings = <<>>
    /\ IdleTemplates /\ IdleOpen /\ IdleStory

\* UNSAFE_componentWillReceiveProps: bbox: join(newProps.bbox, ',')
componentWillReceiveProps(newProps) ==
    panelState' = [panelState EXCEPT !.bbox = join(newProps.bbox)]

\* UNSAFE_componentWillMount: bbox: join(this.props.bbox, ','),
\* eventKey: tabs[this.props.selectedTab] || 1
Mount ==
    /\ ~panelState.mounted
    /\ panelState' =
          [panelState EXCEPT
              !.mounted = TRUE,
              !.bbox = join(props.bbox),
              !.eventKey = IF props.selectedTab \in DOMAIN tabs
                           THEN tabs[props.selectedTab] ELSE 1]
    /\ UNCHANGED <<props, updatedSettings, templateVars, openVars, storyVars>>

\* <Tabs onSelect={(eventKey) => this.setState({ eventKey })}>
Select(eventKey) ==
    /\ panelState.mounted
    /\ eventKey \in RenderedTabs(props)
    /\ panelState' = [panelState EXCEPT !.eventKey = eventKey]
    /\ UNCHANGED <<props, updatedSettings, templateVars, openVars, storyVars>>

\* the parent renders the panel with another embedPanel
SetEmbedPanel ==
    /\ panelState.mounted
    /\ props' = [props EXCEPT !.embedPanel = ~@]
    /\ componentWillReceiveProps(props')
    /\ UNCHANGED <<updatedSettings, templateVars, openVars, storyVars>>

\* the map moves: the parent renders the panel with another bbox
SetBbox ==
    /\ panelState.mounted
    /\ \E bbox \in Bboxes \ {props.bbox} : props' = [props EXCEPT !.bbox = bbox]
    /\ componentWillReceiveProps(props')
    /\ UNCHANGED <<updatedSettings, templateVars, openVars, storyVars>>

\* onSwitch={() => this.setState({ showAdvanced: !this.state.showAdvanced })}
SwitchAdvanced ==
    /\ panelState.mounted
    /\ panelState' = [panelState EXCEPT !.showAdvanced = ~@]
    /\ UNCHANGED <<props, updatedSettings, templateVars, openVars, storyVars>>

\* this.props.onUpdateSettings(settings): the parent renders the panel
\* with the settings it was given. The checkboxes are the children of the
\* SwitchPanel, there while it is expanded.
onUpdateSettings(settings) ==
    /\ props' = [props EXCEPT !.settings = settings]
    /\ componentWillReceiveProps(props')
    /\ updatedSettings' = <<settings>>
    /\ UNCHANGED <<templateVars, openVars, storyVars>>

\* mutant of bboxToggled: the center and zoom setting is left as it is
bboxToggledOnly(settings) == [settings EXCEPT !.bboxEnabled = ~@]

\* {...settings, bboxEnabled: !settings.bboxEnabled, centerAndZoomEnabled: false}
bboxToggled(settings) ==
    [settings EXCEPT !.bboxEnabled = ~@, !.centerAndZoomEnabled = FALSE]

\* {...settings, centerAndZoomEnabled: !..., bboxEnabled: false}
centerAndZoomToggled(settings) ==
    [settings EXCEPT !.centerAndZoomEnabled = ~@, !.bboxEnabled = FALSE]

\* {...settings, showHome: !settings.showHome}
showHomeToggled(settings) == [settings EXCEPT !.showHome = ~@]

\* {...settings, markerEnabled: !settings.markerEnabled}
markerToggled(settings) == [settings EXCEPT !.markerEnabled = ~@]

\* the bbox checkbox
ToggleBbox ==
    /\ panelState.mounted /\ panelState.showAdvanced
    /\ props.advancedSettings.bbox
    /\ onUpdateSettings(bboxToggled(props.settings))

\* the center and zoom checkbox; this.props.identifyDisable() is called
\* first and throws when the parent gave no such function
ToggleCenterAndZoom ==
    /\ panelState.mounted /\ panelState.showAdvanced
    /\ props.advancedSettings.centerAndZoom
    /\ props.identifyDisable
    /\ onUpdateSettings(centerAndZoomToggled(props.settings))

\* the home button checkbox
ToggleShowHome ==
    /\ panelState.mounted /\ panelState.showAdvanced
    /\ props.advancedSettings.homeButton
    /\ onUpdateSettings(showHomeToggled(props.settings))

\* the marker checkbox, rendered with settings.centerAndZoomEnabled
ToggleMarker ==
    /\ panelState.mounted /\ panelState.showAdvanced
    /\ props.settings.centerAndZoomEnabled
    /\ onUpdateSettings(markerToggled(props.settings))

\* getShareUrl: the parameters appended to the url, in order
getShareUrl(p, st) ==
    (IF p.settings.bboxEnabled /\ p.advancedSettings.bbox /\ TruthyStr(st.bbox)
     THEN <<[name |-> "bbox", value |-> st.bbox]>> ELSE <<>>)
    \o (IF p.settings.showHome /\ p.advancedSettings.homeButton
        THEN <<[name |-> "showHome", value |-> "true"]>> ELSE <<>>)
    \o (IF p.settings.centerAndZoomEnabled /\ p.advancedSettings.centerAndZoom
        THEN <<[name |-> IF p.settings.markerEnabled THEN "marker" ELSE "center",
                value |-> "coordinate"],
               [name |-> "zoom", value |-> "zoom"]>>
        ELSE <<>>)

NextShare ==
    \/ Mount
    \/ \E eventKey \in 1..3 : Select(eventKey)
    \/ SetEmbedPanel
    \/ SetBbox
    \/ SwitchAdvanced
    \/ ToggleBbox
    \/ ToggleCenterAndZoom
    \/ ToggleShowHome
    \/ ToggleMarker

SpecShare == InitShare /\ [][NextShare]_vars

----------------------------------------------------------------------------
(* geostory action creators *)

\* the arguments of add: a path, a position, an element with or without id
Paths == {"sections", "sections[0].contents"}
Positions == {0, 1}
Elements == [type : {"dummy"}, id : {Undefined, "e1", "e2"}]

\* the id generated by the n-th call that needs one
Uuids == <<"u1", "u2", "u3", "u4">>
uuid(n) == Uuids[n]

\* the calls so far that generated an id
Generated(cs) == {k \in DOMAIN cs : cs[k].element.id = Undefined}

\* mutant of add: no id is generated
addWithoutId(path, position, element, n) ==
    [type |-> "ADD", id |-> element.id, path |-> path, position |-> position,
     element |-> element]

\* add(path, position, element): the ADD action, with the element's id or a
\* new one
add(path, position, element, n) ==
    [type |-> "ADD",
     id |-> IF element.id # Undefined THEN element.id ELSE uuid(n),
     path |-> path, position |-> position, element |-> element]

\* a caller creates an ADD action
Add(path, position, element) ==
    /\ Len(calls) < MaxAdds
    /\ calls' = Append(calls,
          [path |-> path, position |-> position, element |-> element,
           action |-> add(path, position, element,
                          Cardinality(Generated(calls)) + 1)])
    /\ UNCHANGED <<templateVars, openVars, shareVars>>

NextStory ==
    \E path \in Paths, position \in Positions, element \in Elements :
        Add(path, position, element)

\* nothing is created yet
InitStory == IdleStory /\ IdleTemplates /\ IdleOpen /\ IdleShare

SpecStory == InitStory /\ [][NextStory]_vars

----------------------------------------------------------------------------
(* openMapTemplatesPanelEpic and clearMapTemplatesEpic *)

setControlProperty(control, property, value, toggle) ==
    [type |-> "SET_CONTROL_PROPERTY", control |-> control, property |-> property,
     value |-> value, toggle |-> toggle]
setTemplates(list) == [type |-> "SET_TEMPLATES", templates |-> list]
\* error is <<>> when there is none
setMapTemplatesLoaded(loaded, error) ==
    [type |-> "SET_MAP_TEMPLATES_LOADED", loaded |-> loaded, error |-> error]

\* the resource of a template on the server; only t1 has a thumbnail
Resource(id) ==
    [id |-> id, name |-> <<"name", id>>, description |-> <<"description", id>>,
     attributes |-> IF id = "t1"
                    THEN <<[name |-> "thumbnail", value |-> "thumb1"]>>
                    ELSE <<>>]

\* what the search resolves to: ResourceList.Resource is absent, one
\* resource, or an array of resources
SearchData(context) ==
    {[kind |-> "none", resources |-> <<>>]}
        \cup {[kind |-> "one", resources |-> <<Resource(id)>>] : id \in context}
        \cup (IF context = Ids
              THEN {[kind |-> "array", resources |-> <<Resource("t1"), Resource("t2")>>]}
              ELSE {})
\* Observable.of({})
EmptyData == [kind |-> "none", resources |-> <<>>]

\* get(find(attributes, ({name}) => name === 'thumbnail'), 'value')
extractThumbnail(resource) ==
    LET found == SelectSeq(resource.attributes, LAMBDA a : a.name = "thumbnail")
    IN IF found = <<>> THEN Undefined ELSE found[1].value

\* resources.map(resource => ({...pick(resource, 'id', 'name', 'description'),
\*     thumbnail, dataLoaded: false, loading: false}))
newTemplates(data) ==
    [k \in DOMAIN data.resources |->
        [id |-> data.resources[k].id, name |-> data.resources[k].name,
         description |-> data.resources[k].description,
         thumbnail |-> extractThumbnail(data.resources[k]),
         dataLoaded |-> FALSE, loading |-> FALSE]]

\* the inner switchMap: the list, then the loaded flag
FoundActions(data) ==
    <<setTemplates(newTemplates(data)), setMapTemplatesLoaded(TRUE, <<>>)>>

\* mutant of CatchActions: a failed search leaves the list not loaded
CatchActionsNotLoaded(err) == <<setMapTemplatesLoaded(FALSE, <<err>>)>>

\* .catch(err => Observable.of(setMapTemplatesLoaded(true, err)))
CatchActions(err) == <<setMapTemplatesLoaded(TRUE, <<err>>)>>

\* mutant of Searches: the server is asked also for no template
SearchesAlways(context) == TRUE

\* contextTemplates.length > 0 ? Observable.defer(...) : Observable.of({})
Searches(context) == context # {}

\* the reducers of the actions the epics emit, as far as the epics read the
\* state back: the templates of the list (the epics read dataLoaded, loading
\* and data), the loaded flag and the control
ReduceOpen(st, a) ==
    CASE a.type = "SET_TEMPLATES" ->
            [st EXCEPT !.templates =
                [id \in {a.templates[k].id : k \in DOMAIN a.templates} |->
                    [dataLoaded |-> FALSE, loading |-> FALSE, data |-> NoData]]]
      [] a.type = "SET_MAP_TEMPLATES_LOADED" -> [st EXCEPT !.loaded = a.loaded]
      [] a.type = "SET_CONTROL_PROPERTY" -> [st EXCEPT !.enabled = a.value]
      [] OTHER -> st

RECURSIVE DispatchOpen(_, _)
DispatchOpen(st, actions) ==
    IF actions = <<>> THEN st
    ELSE DispatchOpen(ReduceOpen(st, Head(actions)), Tail(actions))

\* the store slices the open and clear epics write
Store == [templates |-> templates, loaded |-> mapTemplatesLoaded, enabled |-> enabled]
Dispatched(actions) ==
    LET st == DispatchOpen(Store, actions)
    IN /\ templates' = st.templates
       /\ mapTemplatesLoaded' = st.loaded
       /\ enabled' = st.enabled

\* the search of an invocation is awaited
Searching(n) == opens[n].phase = "searching"

\* what the invocation of opens[n] emitted in this step
EmittedOpen(n) == SubSeq(opens'[n].out, Len(opens[n].out) + 1, Len(opens'[n].out))

\* the context is known before the panel can be opened
InitOpen ==
    /\ mapTemplatesLoaded = FALSE
    /\ contextTemplates \in SUBSET Ids
    /\ enabled \in BOOLEAN
    /\ opens = <<>>
    /\ IdleTemplates /\ IdleShare /\ IdleStory

\* an OPEN_MAP_TEMPLATES_PANEL action reaches the epic: switchMap
\* unsubscribes the search of the previous one
OpenPanel ==
    /\ Len(opens) < MaxOpens
    /\ LET first == <<setControlProperty("mapTemplates", "enabled", TRUE, TRUE)>>
           started == [loaded |-> mapTemplatesLoaded, context |-> contextTemplates,
                       phase |-> "done", searched |-> FALSE, out |-> first]
           inv == IF mapTemplatesLoaded THEN started
                  ELSE IF Searches(contextTemplates)
                  THEN [started EXCEPT !.phase = "searching", !.searched = TRUE]
                  ELSE [started EXCEPT !.out = @ \o FoundActions(EmptyData)]
           others == [n \in DOMAIN opens |->
                        IF Searching(n)
                        THEN [opens[n] EXCEPT !.phase = "unsubscribed"]
                        ELSE opens[n]]
       IN /\ opens' = Append(others, inv)
          /\ Dispatched(inv.out)
    /\ UNCHANGED <<contextTemplates, mapState, loggedIn, invs, shareVars, storyVars>>

\* Api.searchListByAttributes resolves
SearchOk(data) ==
    \E n \in DOMAIN opens :
        /\ Searching(n)
        /\ data \in SearchData(opens[n].context)
        /\ opens' = [opens EXCEPT ![n].out = @ \o FoundActions(data),
                                  ![n].phase = "done"]
        /\ Dispatched(EmittedOpen(n))
        /\ UNCHANGED <<contextTemplates, mapState, loggedIn, invs, shareVars, storyVars>>

\* Api.searchListByAttributes rejects
SearchFail(err) ==
    \E n \in DOMAIN opens :
        /\ Searching(n)
        /\ opens' = [opens EXCEPT ![n].out = @ \o CatchActions(err),
                                  ![n].phase = "done"]
        /\ Dispatched(EmittedOpen(n))
        /\ UNCHANGED <<contextTemplates, mapState, loggedIn, invs, shareVars, storyVars>>

\* clearMapTemplatesEpic: a CLEAR_MAP_TEMPLATES action closes the panel
ClearMapTemplates ==
    /\ enabled
    /\ Dispatched(<<setControlProperty("mapTemplates", "enabled", FALSE, FALSE)>>)
    /\ UNCHANGED <<contextTemplates, opens, mapState, loggedIn, invs, shareVars, storyVars>>

NextOpen ==
    \/ OpenPanel
    \/ \E data \in SearchData(Ids) : SearchOk(data)
    \/ \E err \in FetchErrors : SearchFail(err)
    \/ ClearMapTemplates

SpecOpen == InitOpen /\ [][NextOpen]_vars

----------------------------------------------------------------------------
(* Properties *)

OfType(out, t) == SelectSeq(out, LAMBDA a : a.type = t)
Stops(inv) == SelectSeq(inv.out, LAMBDA a : a = setTemplateLoading(inv.id, FALSE))
\* the invocations that called Api.getData(id)
Fetches(id) == {n \in DOMAIN invs : invs[n].id = id /\ invs[n].fetched}
\* the request of this step, if it is one
NewRequests == DOMAIN invs' \ DOMAIN invs

\* C1: a merge or replace request that finds its template with
\* dataLoaded = true never calls getData(id): the invocation is never in the
\* fetching phase and its data is the data the cache held at the request.
C1_CachedNeverFetches ==
    [][/\ \A n \in NewRequests :
            (invs'[n].id \in Ids /\ templates[invs'[n].id].dataLoaded) =>
                /\ ~invs'[n].fetched
                /\ invs'[n].phase # "fetching"
                /\ invs'[n].data = templates[invs'[n].id].data
       /\ \A n \in DOMAIN invs :
            invs[n].dataLoaded =>
                ~invs'[n].fetched /\ invs'[n].phase # "fetching"]_vars

\* C1 witness: an invocation that found its template loaded has configured
\* the map from the cached data and is over.
C1_Witness ==
    \E n \in DOMAIN invs :
        /\ invs[n].dataLoaded
        /\ invs[n].phase = "done"
        /\ ~invs[n].fetched
        /\ OfType(invs[n].out, "MAP_CONFIG_LOADED") # <<>>

\* C2 (as claimed): every invocation that is over, completed or
\* unsubscribed, has emitted SetTemplateLoading(id, false) exactly once, and
\* no template is left loading with no invocation in flight for it.
C2_EveryInvocationStopsLoading ==
    /\ \A n \in DOMAIN invs :
            invs[n].phase \in {"done", "unsubscribed"} => Len(Stops(invs[n])) = 1
    /\ \A id \in Ids :
            templates[id].loading =>
                \E n \in DOMAIN invs : invs[n].id = id /\ InFlight(n)

\* C3 (as claimed): getData(id) is called at most once for every id.
C3_AtMostOneFetchPerId == \A id \in Ids : Cardinality(Fetches(id)) <= 1

\* C3 (amended): once a template is dataLoaded, no request calls getData(id)
\* again; the calls a template gets are those of the requests that found it
\* not dataLoaded.
C3_NoFetchOnceLoaded ==
    [][\A id \in Ids : templates[id].dataLoaded => Fetches(id)' = Fetches(id)]_vars

\* C3 witness: two invocations of one id are over, the first fetched and
\* stored the data, the second did not fetch.
C3_Witness ==
    \E id \in Ids : \E n, m \in DOMAIN invs :
        /\ n < m
        /\ invs[n].id = id /\ invs[m].id = id
        /\ invs[n].phase = "done" /\ invs[m].phase = "done"
        /\ Fetches(id) = {n}
        /\ templates[id].dataLoaded

MessageOf(inv) == OfType(inv.out, "SHOW_NOTIFICATION")[1].message

\* C4: the message id of every error notification is 'pleaseLogin' for a
\* 403 while not logged in, 'notAccessible' for a 403 while logged in,
\* 'notFound' for a 404 whatever the login state, and 'unknownError' for any
\* other status and for an error without a status.
C4_ErrorTranslation ==
    \A n \in DOMAIN invs :
        invs[n].failure # <<>> =>
            LET f == invs[n].failure[1]
                m == MessageOf(invs[n])
            IN /\ Len(OfType(invs[n].out, "SHOW_NOTIFICATION")) = 1
               /\ (f.status = <<403>> /\ ~f.loggedIn) =>
                      m = "context.errors.template.pleaseLogin"
               /\ (f.status = <<403>> /\ f.loggedIn) =>
                      m = "context.errors.template.notAccessible"
               /\ f.status = <<404>> => m = "context.errors.template.notFound"
               /\ f.status \notin {<<403>>, <<404>>} =>
                      m = "context.errors.template.unknownError"

\* C4 witness: a fetch failed with 403 while the user was logged in.
C4_Witness ==
    \E n \in DOMAIN invs :
        /\ invs[n].failure # <<>>
        /\ invs[n].failure[1].status = <<403>>
        /\ invs[n].failure[1].loggedIn
        /\ invs[n].phase = "done"

MessageIds ==
    {"context.errors.template.pleaseLogin", "context.errors.template.notAccessible",
     "context.errors.template.notFound", "context.errors.template.unknownError"}

\* the invocations whose fetch or parse fails in this step
Failing == {n \in DOMAIN invs : invs[n].failure = <<>> /\ invs'[n].failure # <<>>}

\* C5: when the fetch or the parse of an invocation fails, the invocation
\* has emitted, after SetTemplateLoading(id, true), exactly one ShowError
\* with a message id and then SetTemplateLoading(id, false), no ConfigureMap
\* and no SetTemplateData, and the step leaves the cache entry's data and
\* dataLoaded as they were.
C5_FailureEmitsErrorThenStop ==
    [][\A n \in Failing :
         LET id == invs[n].id
         IN /\ \E m \in MessageIds :
                  invs'[n].out = <<setTemplateLoading(id, TRUE), showError(m),
                                   setTemplateLoading(id, FALSE)>>
            /\ templates'[id].data = templates[id].data
            /\ templates'[id].dataLoaded = templates[id].dataLoaded]_vars

\* C5 witness: the text an invocation fetched did not parse, and the
\* invocation is over.
C5_Witness ==
    \E n \in DOMAIN invs :
        /\ invs[n].failure # <<>>
        /\ invs[n].fetched
        /\ isString(invs[n].data)
        /\ invs[n].phase = "done"

\* C6 (as claimed): no request for another id of the cache unsubscribes an
\* invocation; an invocation is only ever superseded by its own id.
C6_OtherIdsDoNotAbort ==
    \A n \in DOMAIN invs :
        (invs[n].phase = "unsubscribed" /\ invs[n].by \in Ids) =>
            invs[n].by = invs[n].id

\* the configuration a template's data stands for
TemplateConfig(inv) ==
    IF isString(inv.data) THEN toMapConfig(inv.data.text, inv.epic = "merge")
    ELSE inv.data.config

ReplaceConfigured ==
    {n \in DOMAIN invs :
        invs[n].epic = "replace" /\ OfType(invs[n].out, "MAP_CONFIG_LOADED") # <<>>}

\* C7 (as claimed): the map of a replace's ConfigureMap has the template's
\* zoom whenever the template has one (0 included) and the current zoom
\* otherwise, likewise for center, and everything else is the template's.
C7_ReplaceKeepsTemplateZoom ==
    \A n \in ReplaceConfigured :
        LET t == TemplateConfig(invs[n])
            c == OfType(invs[n].out, "MAP_CONFIG_LOADED")[1].config
        IN /\ c.map.zoom = IF t.map.zoom # <<>> THEN t.map.zoom
                           ELSE invs[n].state.zoom
           /\ c.map.center = IF t.map.center # Undefined THEN t.map.center
                             ELSE invs[n].state.center
           /\ c.map.bbox = t.map.bbox
           /\ c.map.maxExtent = t.map.maxExtent
           /\ c.layers = t.layers
           /\ c.groups = t.groups
           /\ c.widgetsConfig = t.widgetsConfig

\* C8 (as claimed): the fit-to-extent argument of a replace's ConfigureMap is
\* set exactly when the template's map has no zoom and has a bbox or a
\* maxExtent.
C8_FitOnlyWithoutZoom ==
    \A n \in ReplaceConfigured :
        LET t == TemplateConfig(invs[n])
            a == OfType(invs[n].out, "MAP_CONFIG_LOADED")[1]
        IN TruthyObj(a.zoomToExtent) <=>
              /\ t.map.zoom = <<>>
              /\ (t.map.bbox # Undefined \/ t.map.maxExtent # Undefined)

\* C9: no ConfigureMap of a merge carries a widgetsConfig.
C9_MergeDropsWidgetsConfig ==
    \A n \in DOMAIN invs :
        invs[n].epic = "merge" =>
            \A k \in DOMAIN invs[n].out :
                invs[n].out[k].type = "MAP_CONFIG_LOADED" =>
                    invs[n].out[k].config.widgetsConfig = Undefined

\* C9 witness: a merge has configured the map where both the current
\* configuration and the template had a widgetsConfig.
C9_Witness ==
    \E n \in DOMAIN invs :
        /\ invs[n].epic = "merge"
        /\ invs[n].phase = "done"
        /\ OfType(invs[n].out, "MAP_CONFIG_LOADED") # <<>>
        /\ invs[n].state.widgetsConfig # Undefined
        /\ invs[n].data.config.widgetsConfig # Undefined

\* data that is neither a string nor an object with a defined map
NotMapShaped(d) == ~isString(d) /\ ~(isObject(d) /\ d.config.map.defined)

\* C10: a merge whose data is neither a string nor an object with a map
\* emits SetTemplateLoading(id, true), SetTemplateData(id, data) only if the
\* template was not dataLoaded, and SetTemplateLoading(id, false): no
\* ConfigureMap and no ShowError.
C10_MergeOfOtherData ==
    \A n \in DOMAIN invs :
        (invs[n].epic = "merge" /\ invs[n].phase = "done"
            /\ invs[n].failure = <<>> /\ NotMapShaped(invs[n].data)) =>
            invs[n].out =
                <<setTemplateLoading(invs[n].id, TRUE)>>
                    \o (IF invs[n].dataLoaded THEN <<>>
                        ELSE <<setTemplateData(invs[n].id, invs[n].data)>>)
                    \o <<setTemplateLoading(invs[n].id, FALSE)>>

\* C10 witness: a merge found an object without a map in the cache and is
\* over.
C10_Witness ==
    \E n \in DOMAIN invs :
        /\ invs[n].epic = "merge"
        /\ invs[n].phase = "done"
        /\ invs[n].dataLoaded
        /\ isObject(invs[n].data)
        /\ ~invs[n].data.config.map.defined

\* the places of the actions of a type in what an invocation emitted
Places(out, t) == {k \in DOMAIN out : out[k].type = t}

\* C11: in what an invocation emits, SetTemplateLoading(id, true) is the
\* first action and it is there when the fetch is issued,
\* SetTemplateLoading(id, false) comes last, the two are emitted nowhere
\* else, and a SetTemplateData comes before a ConfigureMap.
C11_EmissionOrder ==
    \A n \in DOMAIN invs :
        LET out == invs[n].out
            id == invs[n].id
        IN /\ invs[n].fetched => (out # <<>> /\ out[1] = setTemplateLoading(id, TRUE))
           /\ \A k \in DOMAIN out :
                /\ out[k] = setTemplateLoading(id, TRUE) <=> k = 1
                /\ out[k] = setTemplateLoading(id, FALSE) => k = Len(out)
           /\ invs[n].phase = "done" => out[Len(out)] = setTemplateLoading(id, FALSE)
           /\ \A d \in Places(out, "SET_TEMPLATE_DATA") :
                \A c \in Places(out, "MAP_CONFIG_LOADED") : d < c

\* C11 witness: a merge fetched its data, stored it and configured the map.
C11_Witness ==
    \E n \in DOMAIN invs :
        /\ invs[n].epic = "merge"
        /\ invs[n].fetched
        /\ invs[n].phase = "done"
        /\ Places(invs[n].out, "SET_TEMPLATE_DATA") # {}
        /\ Places(invs[n].out, "MAP_CONFIG_LOADED") # {}

\* C12 (as claimed): every invocation that ends with an error, a request for
\* an id that is not in the cache included, has emitted one ShowError, and
\* no epic has stopped.
C12_ErrorsNeverStopTheEpics ==
    /\ \A n \in DOMAIN invs :
            (invs[n].failure # <<>> \/ invs[n].phase = "thrown") =>
                Len(OfType(invs[n].out, "SHOW_NOTIFICATION")) = 1
    /\ \A e \in Epics : ~Stopped(e)

\* what an invocation emits in this step, its request's step included
EmittedNow(n) == IF n \in DOMAIN invs THEN Emitted(n) ELSE invs'[n].out

\* C13 (as claimed): no SetTemplateData(id, ...) is emitted while the cache
\* entry of id has dataLoaded = true.
C13_LoadedDataNeverWritten ==
    [][\A n \in DOMAIN invs' :
         \A k \in DOMAIN EmittedNow(n) :
            EmittedNow(n)[k].type = "SET_TEMPLATE_DATA" =>
                ~templates[EmittedNow(n)[k].id].dataLoaded]_vars

\* C13 (amended): an invocation emits SetTemplateData only if its template
\* was not dataLoaded when its request was received, at most once, for its
\* own id and with the data it fetched.
C13_WrittenOnlyIfNotLoadedAtRequest ==
    \A n \in DOMAIN invs :
        LET w == OfType(invs[n].out, "SET_TEMPLATE_DATA")
        IN /\ Len(w) <= 1
           /\ w # <<>> =>
                /\ ~invs[n].dataLoaded
                /\ invs[n].fetched
                /\ w[1] = setTemplateData(invs[n].id, invs[n].data)

\* C13 witness: an invocation stored the data of a template and a later one
\* of the same id, which found it loaded, is over without storing anything.
C13_Witness ==
    \E n, m \in DOMAIN invs :
        /\ n < m
        /\ invs[n].id = invs[m].id
        /\ Places(invs[n].out, "SET_TEMPLATE_DATA") # {}
        /\ invs[m].dataLoaded
        /\ invs[m].phase = "done"
        /\ Places(invs[m].out, "SET_TEMPLATE_DATA") = {}

\* the elements of a sequence
Range(s) == {s[k] : k \in DOMAIN s}

\* C14: an invocation whose fetch completed successfully has, once it is
\* over, emitted SetTemplateData(id, data) with the fetched data, and the
\* template is dataLoaded, also when the data is text that fails to parse.
C14_FetchedDataStored ==
    \A n \in DOMAIN invs :
        (invs[n].fetched /\ invs[n].data # NoData /\ invs[n].phase = "done") =>
            /\ setTemplateData(invs[n].id, invs[n].data) \in Range(invs[n].out)
            /\ templates[invs[n].id].dataLoaded

\* C14 without the parse failures: what the code does guarantee
C14_FetchedDataStoredUnlessParseFails ==
    \A n \in DOMAIN invs :
        (invs[n].fetched /\ invs[n].data # NoData /\ invs[n].phase = "done"
            /\ invs[n].failure = <<>>) =>
            /\ setTemplateData(invs[n].id, invs[n].data) \in Range(invs[n].out)
            /\ templates[invs[n].id].dataLoaded

\* the phases an invocation can move to in one step
NextPhases(phase) ==
    CASE phase = "fetching" -> {"parsing", "done", "unsubscribed"}
      [] phase = "parsing" -> {"done", "unsubscribed"}
      [] OTHER -> {}

\* C15: an invocation emits at most one ConfigureMap and at most one
\* ShowError, never both, and its SetTemplateLoading(id, false) is the last
\* thing it emits; it only moves forward (loading, then over) and once it is
\* over it never changes again: no retry.
C15_OutcomesAreTerminalAndExclusive ==
    [][\A n \in DOMAIN invs' :
         LET out == invs'[n].out
             configured == Len(OfType(out, "MAP_CONFIG_LOADED"))
             notified == Len(OfType(out, "SHOW_NOTIFICATION"))
         IN /\ configured <= 1
            /\ notified <= 1
            /\ configured + notified <= 1
            /\ \A k \in DOMAIN out :
                 out[k] = setTemplateLoading(invs'[n].id, FALSE) => k = Len(out)
            /\ invs'[n].phase = "done" =>
                 out[Len(out)] = setTemplateLoading(invs'[n].id, FALSE)
            /\ n \in DOMAIN invs =>
                 \/ invs'[n] = invs[n]
                 \/ /\ invs'[n].phase \in NextPhases(invs[n].phase)
                    /\ Len(invs[n].out) <= Len(out)
                    /\ SubSeq(out, 1, Len(invs[n].out)) = invs[n].out]_vars

\* C15 witness: one invocation is over with a ConfigureMap, another with a
\* ShowError.
C15_Witness ==
    \E n, m \in DOMAIN invs :
        /\ invs[n].phase = "done" /\ invs[m].phase = "done"
        /\ Len(OfType(invs[n].out, "MAP_CONFIG_LOADED")) = 1
        /\ Len(OfType(invs[m].out, "SHOW_NOTIFICATION")) = 1

\* C18: a replace whose data is structured and has no map emits
\* SetTemplateLoading(id, true), SetTemplateData(id, data) only if the
\* template was not dataLoaded, and SetTemplateLoading(id, false): no
\* ConfigureMap, no ShowError, and the map state is the one it found.
C18_ReplaceWithoutMap ==
    \A n \in DOMAIN invs :
        (invs[n].epic = "replace" /\ invs[n].phase = "done"
            /\ isObject(invs[n].data) /\ ~invs[n].data.config.map.defined) =>
            /\ invs[n].out =
                 StartActions(invs[n].id)
                    \o (IF invs[n].dataLoaded THEN <<>>
                        ELSE <<setTemplateData(invs[n].id, invs[n].data)>>)
                    \o StopActions(invs[n].id)
            /\ OfType(invs[n].out, "MAP_CONFIG_LOADED") = <<>>
            /\ OfType(invs[n].out, "SHOW_NOTIFICATION") = <<>>

\* C18 witness: such a replace is over, having fetched and stored the data
C18_Witness ==
    \E n \in DOMAIN invs :
        /\ invs[n].epic = "replace" /\ invs[n].phase = "done"
        /\ isObject(invs[n].data) /\ ~invs[n].data.config.map.defined
        /\ invs[n].fetched
        /\ Len(invs[n].out) = 3

\* C18 witness of the cached case: nothing is stored again
C18_WitnessCached ==
    \E n \in DOMAIN invs :
        /\ invs[n].epic = "replace" /\ invs[n].phase = "done"
        /\ isObject(invs[n].data) /\ ~invs[n].data.config.map.defined
        /\ invs[n].dataLoaded
        /\ Len(invs[n].out) = 2

\* the ConfigureMap and ShowError actions an invocation emits in this step
ConfiguredNow(n) == OfType(EmittedNow(n), "MAP_CONFIG_LOADED")
NotifiedNow(n) == OfType(EmittedNow(n), "SHOW_NOTIFICATION")

\* C19: an invocation keeps the map state read when its request was
\* received; the ConfigureMap of a merge has the zoom, center, layers and
\* groups of that state, and the ConfigureMap of a replace falls back to the
\* zoom and center of that state, whatever the map state is when the data
\* arrives. The login state of an error notification is the one of the
\* moment the error is handled.
C19_SnapshotAtRequest ==
    [][\A n \in DOMAIN invs' :
         LET inv == invs'[n]
             s == inv.state
         IN /\ s = IF n \in DOMAIN invs THEN invs[n].state ELSE mapState
            /\ \A k \in DOMAIN ConfiguredNow(n) :
                 LET c == ConfiguredNow(n)[k].config
                     t == TemplateConfig(inv)
                 IN IF inv.epic = "merge"
                    THEN /\ c.map.zoom = s.zoom
                         /\ c.map.center = s.center
                         /\ c.layers = s.layers \o t.layers
                         /\ SubSeq(c.groups, 1, Len(s.groups)) = s.groups
                    ELSE /\ c.map.zoom = IF TruthyNum(t.map.zoom)
                                         THEN t.map.zoom ELSE s.zoom
                         /\ c.map.center = IF TruthyObj(t.map.center)
                                           THEN t.map.center ELSE s.center
            /\ \A k \in DOMAIN NotifiedNow(n) :
                 /\ inv.failure # <<>>
                 /\ inv.failure[1].loggedIn = loggedIn
                 /\ inv.failure[1].status = <<403>> =>
                      (NotifiedNow(n)[k].message = "context.errors.template.pleaseLogin"
                          <=> ~loggedIn)]_vars

\* C19 witness: a merge that fetched its data has configured the map with
\* the zoom of its request and the map has another zoom now.
C19_Witness ==
    \E n \in DOMAIN invs :
        /\ invs[n].epic = "merge" /\ invs[n].fetched /\ invs[n].phase = "done"
        /\ OfType(invs[n].out, "MAP_CONFIG_LOADED") # <<>>
        /\ OfType(invs[n].out, "MAP_CONFIG_LOADED")[1].config.map.zoom = invs[n].state.zoom
        /\ invs[n].state.zoom # mapState.zoom

\* C16: the displayed tab is 1 (link) when the embed panel is disabled and
\* tab 3 (embed) is the selected one; it is 3 only if embedPanel is true;
\* otherwise it is the selected tab; so it is always one of the rendered tabs.
C16_DisplayedTab ==
    panelState.mounted =>
        LET shown == currentTab(props, panelState)
        IN /\ (~props.embedPanel /\ panelState.eventKey = 3) => shown = 1
           /\ shown = 3 => props.embedPanel
           /\ ~(~props.embedPanel /\ panelState.eventKey = 3) =>
                 shown = panelState.eventKey
           /\ shown \in RenderedTabs(props)

\* C16 witness: the embed tab is the selected one and the embed panel is
\* disabled.
C16_Witness ==
    /\ panelState.mounted
    /\ panelState.eventKey = 3
    /\ ~props.embedPanel
    /\ currentTab(props, panelState) = 1

\* C17: the action add returns is an ADD action with the path, the position
\* and the element it was given and with a defined id, a generated one when
\* the element has none; no two generated ids are the same.
C17_AddCarriesAnId ==
    \A k \in DOMAIN calls :
        LET c == calls[k]
        IN /\ c.action.type = "ADD"
           /\ c.action.path = c.path
           /\ c.action.position = c.position
           /\ c.action.element = c.element
           /\ c.action.id # Undefined
           /\ c.element.id = Undefined =>
                /\ c.action.id \notin {e.id : e \in Elements}
                /\ \A j \in DOMAIN calls : c.action.id = calls[j].action.id => j = k

\* C17 witness: add was called twice with elements that have no id
C17_Witness ==
    \E j, k \in DOMAIN calls :
        /\ j # k
        /\ calls[j].element.id = Undefined
        /\ calls[k].element.id = Undefined
        /\ calls[k].action.type = "ADD"

\* C20: the first action of every OpenTemplatesPanel invocation, and only
\* the first, is SetControlProperty('mapTemplates', 'enabled', true); an
\* invocation that found the list loaded searched nothing and emitted
\* nothing else; one that found it not loaded and the context without
\* templates searched nothing and emitted SetTemplates([]) and then
\* SetTemplatesLoaded(true).
C20_OpenTemplatesPanel ==
    \A n \in DOMAIN opens :
        LET out == opens[n].out
        IN /\ out # <<>>
           /\ \A k \in DOMAIN out :
                 out[k].type = "SET_CONTROL_PROPERTY" <=> k = 1
           /\ out[1].control = "mapTemplates" /\ out[1].property = "enabled"
           /\ out[1].value = TRUE
           /\ opens[n].loaded =>
                 /\ ~opens[n].searched
                 /\ Len(out) = 1
           /\ (~opens[n].loaded /\ opens[n].context = {}) =>
                 /\ ~opens[n].searched
                 /\ Len(out) = 3
                 /\ out[2] = setTemplates(<<>>)
                 /\ out[3].type = "SET_MAP_TEMPLATES_LOADED"
                 /\ out[3].loaded = TRUE /\ out[3].error = <<>>

\* C20 witness: with a context without templates, the first invocation
\* emitted the empty list and the second found the list loaded.
C20_Witness ==
    \E n, m \in DOMAIN opens :
        /\ n < m
        /\ ~opens[n].loaded /\ opens[n].context = {} /\ Len(opens[n].out) = 3
        /\ opens[m].loaded /\ Len(opens[m].out) = 1

\* C20 witness of a list loaded by a search: the next invocation does not
\* search again.
C20_WitnessSearched ==
    \E n, m \in DOMAIN opens :
        /\ n < m
        /\ opens[n].searched /\ opens[n].phase = "done"
        /\ opens[m].loaded /\ ~opens[m].searched

\* the invocations of the open epic that asked the server
Searched == {n \in DOMAIN opens : opens[n].searched}

\* the search of an invocation is over: it succeeded or it failed
SearchSucceeded(n) ==
    /\ opens[n].searched /\ opens[n].phase = "done"
    /\ opens[n].out[Len(opens[n].out)].error = <<>>
SearchFailed(n) ==
    /\ opens[n].searched /\ opens[n].phase = "done"
    /\ opens[n].out[Len(opens[n].out)].error # <<>>

\* C21: an invocation whose search succeeded emitted, after the control
\* property, SetTemplates(list) and then SetTemplatesLoaded(true), and
\* every template of the list has dataLoaded = false and loading = false;
\* one whose search failed emitted SetTemplatesLoaded(true, err) and no
\* SetTemplates; in both cases the list is then marked loaded, and while it
\* is marked loaded no request issues a new search.
C21_SearchOutcome ==
    [][/\ \A n \in DOMAIN opens' :
            LET out == opens'[n].out
            IN /\ SearchSucceeded(n)' =>
                    /\ Len(out) = 3
                    /\ out[2].type = "SET_TEMPLATES"
                    /\ \A k \in DOMAIN out[2].templates :
                          /\ out[2].templates[k].dataLoaded = FALSE
                          /\ out[2].templates[k].loading = FALSE
                    /\ out[3].type = "SET_MAP_TEMPLATES_LOADED"
                    /\ out[3].loaded = TRUE
                    /\ mapTemplatesLoaded'
               /\ SearchFailed(n)' =>
                    /\ Len(out) = 2
                    /\ out[2].type = "SET_MAP_TEMPLATES_LOADED"
                    /\ out[2].loaded = TRUE
                    /\ out[2].error # <<>>
                    /\ mapTemplatesLoaded'
       /\ mapTemplatesLoaded => Searched' = Searched]_vars

\* C21 witness: a search failed and the next invocation, finding the list
\* loaded, asked nothing.
C21_Witness ==
    \E n, m \in DOMAIN opens :
        /\ n < m
        /\ SearchFailed(n)
        /\ opens[m].loaded /\ ~opens[m].searched /\ opens[m].phase = "done"

\* C21 witness of a successful search with a list of two templates
C21_WitnessFound ==
    \E n \in DOMAIN opens :
        /\ SearchSucceeded(n)
        /\ Len(opens[n].out[2].templates) = 2

\* the names of the parameters of the share url
UrlParams == {getShareUrl(props, panelState)[k].name :
                k \in DOMAIN getShareUrl(props, panelState)}

\* bboxEnabled and centerAndZoomEnabled are not both set, and the share url
\* has not both a bbox and a center or marker parameter
Exclusive ==
    /\ ~(props.settings.bboxEnabled /\ props.settings.centerAndZoomEnabled)
    /\ ~("bbox" \in UrlParams /\ UrlParams \cap {"center", "marker"} # {})

\* C22: from settings where bboxEnabled and centerAndZoomEnabled are not
\* both true, no sequence of toggles of the four checkboxes gives settings
\* where both are true, so the share url never has a bbox parameter together
\* with a center or marker parameter; a step that changes showHome or
\* markerEnabled changes nothing else of the settings.
C22_ExclusiveSettings ==
    [][LET s == props.settings
           t == props'.settings
       IN /\ Exclusive /\ Exclusive'
          /\ \A k \in DOMAIN updatedSettings' :
                ~(updatedSettings'[k].bboxEnabled
                    /\ updatedSettings'[k].centerAndZoomEnabled)
          /\ t.showHome # s.showHome => t = [s EXCEPT !.showHome = ~@]
          /\ t.markerEnabled # s.markerEnabled =>
                t = [s EXCEPT !.markerEnabled = ~@]]_vars

\* C22 witness: a checkbox was toggled and the settings it passed on have
\* the bbox, the marker and the home button on: the url has the bbox and the
\* home button and no marker.
C22_Witness ==
    /\ panelState.mounted
    /\ updatedSettings = <<props.settings>>
    /\ props.settings.bboxEnabled
    /\ props.settings.markerEnabled
    /\ props.settings.showHome
    /\ props.advancedSettings.centerAndZoom
    /\ "bbox" \in UrlParams
    /\ "showHome" \in UrlParams
    /\ "marker" \notin UrlParams

\* C22 witness of the other side: a checkbox was toggled and the url has the
\* marker and no bbox, though the panel has a bbox to share
C22_WitnessMarker ==
    /\ panelState.mounted
    /\ updatedSettings = <<props.settings>>
    /\ props.advancedSettings.bbox /\ TruthyStr(panelState.bbox)
    /\ "marker" \in UrlParams
    /\ "bbox" \notin UrlParams

====
